---- MODULE Spec2Model ----
(***************************************************************************)
(* State-machine model of the OrganizerAgent orchestration core.           *)
(*                                                                         *)
(* Part 1: Agent.execute_function_calls (src/src/agent.py), the dispatch   *)
(* pass over an ordered mapping call_id -> {name, args}.                    *)
(*                                                                         *)
(* Strings are sequences of tokens.  The 13 characters '<result_from_'     *)
(* are the single token PREFIX; every other token is one character.  A     *)
(* value is a record [kind, s, items]: kind "str" for a Python str (s its  *)
(* tokens), "list" for a Python list (items its values), "none" for None.  *)
(***************************************************************************)
EXTENDS Integers, Sequences, FiniteSets, TLC

\* ------------------------------------------------------------------ bounds
MaxCalls == 3
MaxArgs == 2
MaxItems == 3
MaxParams == 2
MaxFiles == 2

\* ------------------------------------------------------------------ values
PREFIX == "<result_from_"

Str(s) == [kind |-> "str", s |-> s, items |-> <<>>]
List(items) == [kind |-> "list", s |-> <<>>, items |-> items]
None == [kind |-> "none", s |-> <<>>, items |-> <<>>]

\* isinstance(arg_value, str)
IsStr(v) == v.kind = "str"

\* arg_value.startswith('<result_from_')
StartsWithPrefix(v) == Len(v.s) >= 1 /\ v.s[1] = PREFIX

\* arg_value[len('<result_from_'):-1]
SourceCallId(v) == SubSeq(v.s, 2, Len(v.s) - 1)

\* str(len(ordered_function_calls)): the call_id the parser gives the n-th
\* accepted record (n counted from 0)
DigitChars == <<"0", "1", "2", "3", "4", "5", "6", "7", "8", "9">>
CallIdOf(n) == <<DigitChars[n + 1]>>

\* the placeholder text for a call id: '<result_from_' + id + '>'
Placeholder(id) == Str(<<PREFIX>> \o id \o <<">">>)

\* ---------------------------------------------------------------- registry
\* keys of Agent.function_map
function_map ==
    {"get_directory_name", "scan_directory", "identify_file_types",
     "organize_files_by_type", "compress_image", "compress_pdf",
     "send_email", "add_calendar_event", "schedule_daily_stock_update"}

\* Agent.arg_mapping
arg_mapping ==
    [email_address |-> "recipient",
     email_subject |-> "email_subject",
     email_body |-> "email_body",
     event_name |-> "event_name",
     event_date |-> "event_date",
     event_start_time |-> "event_start_time",
     event_end_time |-> "event_end_time",
     shared_with |-> "shared_with",
     stock_symbol |-> "stock_symbol",
     scheduled_time |-> "scheduled_time",
     recipient |-> "recipient"]

\* self.arg_mapping.get(key, key)
MappedKey(key) == IF key \in DOMAIN arg_mapping THEN arg_mapping[key] ELSE key

\* ------------------------------------------------------ dicts (ordered)
\* A dict is a sequence of <<key, value>> pairs with distinct keys, in
\* insertion order.
Keys(d) == {d[n][1] : n \in 1..Len(d)}

Get(d, k) == d[CHOOSE n \in 1..Len(d) : d[n][1] = k][2]

\* d[k] = v : overwrite in place when the key exists, append otherwise
DictSet(d, k, v) ==
    IF k \in Keys(d)
    THEN [n \in 1..Len(d) |-> IF d[n][1] = k THEN <<k, v>> ELSE d[n]]
    ELSE Append(d, <<k, v>>)

\* the result store: a function from the stored call ids to values
EmptyStore == [k \in {} |-> None]
\* variant: results = {call_id: result}
StoreSet_Overwrite(st, k, v) == [x \in {k} |-> v]

\* results[k] = v
StoreSet(st, k, v) == [x \in DOMAIN st \cup {k} |-> IF x = k THEN v ELSE st[x]]

\* ------------------------------------------------- Agent.prepare_arguments
\* variant: the attendees value is stored as supplied
RECURSIVE PrepareLoop_NoWrap(_, _, _)
PrepareLoop_NoWrap(arguments, n, mapped) ==
    IF n > Len(arguments)
    THEN mapped
    ELSE PrepareLoop_NoWrap(arguments, n + 1,
             DictSet(mapped, MappedKey(arguments[n][1]), arguments[n][2]))

\* the loop "for key, value in arguments.items()" from entry n on
RECURSIVE PrepareLoop(_, _, _)
PrepareLoop(arguments, n, mapped) ==
    IF n > Len(arguments)
    THEN mapped
    ELSE LET key == arguments[n][1]
             value == arguments[n][2]
             mapped_key == MappedKey(key)
             stored == IF mapped_key = "attendees" /\ IsStr(value)
                       THEN List(<<value>>)
                       ELSE value
         IN  PrepareLoop(arguments, n + 1, DictSet(mapped, mapped_key, stored))

\* self.function_map[function_name] raises KeyError for an unregistered name
PrepareRaises(function_call) == function_call.name \notin function_map

prepare_arguments(function_call) == PrepareLoop(function_call.args, 1, <<>>)

\* ------------------------------------- result substitution (agent.py 173-179)
\* the loop "for arg_name, arg_value in mapped_args.items()" from entry n on;
\* ok = FALSE stands for the ValueError "Result from call ID ... not found!"
\* variant: an unresolvable reference is left in place instead of raising
RECURSIVE SubstituteLoop_SkipsMissing(_, _, _)
SubstituteLoop_SkipsMissing(mapped, n, res) ==
    IF n > Len(mapped)
    THEN [ok |-> TRUE, args |-> mapped, missing |-> <<>>]
    ELSE LET arg_name == mapped[n][1]
             arg_value == mapped[n][2]
         IN  IF /\ IsStr(arg_value) /\ StartsWithPrefix(arg_value)
                /\ SourceCallId(arg_value) \in DOMAIN res
             THEN SubstituteLoop_SkipsMissing(
                      DictSet(mapped, arg_name, res[SourceCallId(arg_value)]),
                      n + 1, res)
             ELSE SubstituteLoop_SkipsMissing(mapped, n + 1, res)

\* variant: the store is consulted but the argument is not replaced
RECURSIVE SubstituteLoop_KeepsPlaceholder(_, _, _)
SubstituteLoop_KeepsPlaceholder(mapped, n, res) ==
    IF n > Len(mapped)
    THEN [ok |-> TRUE, args |-> mapped, missing |-> <<>>]
    ELSE LET arg_value == mapped[n][2]
         IN  IF /\ IsStr(arg_value) /\ StartsWithPrefix(arg_value)
                /\ SourceCallId(arg_value) \notin DOMAIN res
             THEN [ok |-> FALSE, args |-> mapped,
                   missing |-> SourceCallId(arg_value)]
             ELSE SubstituteLoop_KeepsPlaceholder(mapped, n + 1, res)

RECURSIVE SubstituteLoop(_, _, _)
SubstituteLoop(mapped, n, res) ==
    IF n > Len(mapped)
    THEN [ok |-> TRUE, args |-> mapped, missing |-> <<>>]
    ELSE LET arg_name == mapped[n][1]
             arg_value == mapped[n][2]
         IN  IF IsStr(arg_value) /\ StartsWithPrefix(arg_value)
             THEN LET source_call_id == SourceCallId(arg_value)
                  IN  IF source_call_id \in DOMAIN res
                      THEN SubstituteLoop(
                               DictSet(mapped, arg_name, res[source_call_id]),
                               n + 1, res)
                      ELSE [ok |-> FALSE, args |-> mapped,
                            missing |-> source_call_id]
             ELSE SubstituteLoop(mapped, n + 1, res)

\* variant: "except ValueError as e"
ExceptClause_ValueErrorOnly(exc) == exc = "ValueError"

\* "except Exception as e": the exception classes the handler catches
ExceptClause(exc) == exc \in {"Exception", "KeyError", "ValueError", "TypeError"}

\* ---------------------------------------------------------------- inputs
TmpPath == Str(<<"/", "t", "m", "p">>)
Ok == Str(<<"o", "k">>)
Plain == Str(<<"a">>)

\* what a registered capability may return
ReturnValues == {TmpPath, Ok}

\* what a registered capability may raise (subclasses of Exception)
CapabilityExceptions == {"Exception"}

Ref0 == Placeholder(CallIdOf(0))
Ref1 == Placeholder(CallIdOf(1))
\* the placeholder followed by more text: '<result_from_0>/'
RefThenText == Str(<<PREFIX, "0", ">", "/">>)
\* the prefix and an id without the closing '>': '<result_from_0a'
RefNoClose == Str(<<PREFIX, "0", "a">>)
\* the placeholder inside larger text: '/<result_from_0>'
TextThenRef == Str(<<"/", PREFIX, "0", ">">>)

\* the call records a sequence is built from: [name, args]
CallPool ==
    {[name |-> "get_directory_name", args |-> <<>>],
     [name |-> "send_email",
      args |-> <<<<"email_subject", TextThenRef>>, <<"email_body", Ref0>>>>],
     [name |-> "scan_directory", args |-> <<<<"path", Ref1>>>>],
     [name |-> "compress_pdf", args |-> <<<<"file_paths", RefThenText>>>>],
     [name |-> "compress_pdf",
      args |-> <<<<"file_paths", RefNoClose>>, <<"extra", List(<<Ref0>>)>>>>],
     [name |-> "organize_files", args |-> <<<<"source_file", Plain>>>>],
     [name |-> "send_email",
      args |-> <<<<"email_address", Ref0>>, <<"recipient", Plain>>>>],
     [name |-> "extract_info_from_todo", args |-> <<<<"file_path", Ref0>>>>]}

\* an ordered mapping call_id -> {name, args} whose call ids are the
\* positions, as GeminiIntegration.extract_function_call builds it
WithCallIds(calls) ==
    [n \in 1..Len(calls) |->
        [call_id |-> CallIdOf(n - 1), name |-> calls[n].name,
         args |-> calls[n].args]]

CallSequences ==
    {WithCallIds(calls) : calls \in UNION {[1..n -> CallPool] : n \in 0..MaxCalls}}

\* ----------------------------------------------------------------- state
VARIABLES
    function_calls,   \* the ordered mapping the current pass was called with
    pc,               \* "idle", "loop" (top of the for loop), "call" (inside
                      \* the capability), "done" (the pass has ended)
    idx,              \* position of the loop in function_calls (from 1)
    results,          \* the local dict results
    current_path,     \* the local current_path
    mapped_args,      \* the local mapped_args of the call being dispatched
    error,            \* what the except handler printed, NoError if nothing
    outcome,          \* how the pass ended for its caller: "none" while it
                      \* runs, "returned", or "raised"
    stored_before,    \* history: an earlier pass on this Agent stored a result
    log,              \* history: the capability invocations of this pass
    response,         \* extract_function_call: the response being parsed
    candidate_index,  \* position of the loop over response.candidates
    part_index,       \* position of the loop over candidate.content.parts
    ordered_function_calls,  \* the OrderedDict extract_function_call builds
    func,             \* create_schema: the callable it was given
    tool_type,        \* create_schema: the format token it was given
    schema,           \* create_schema: the schema it returned
    ai_provider,      \* Agent.ai_provider
    api_key,          \* whether the provider's API key is in the environment
    ai_model,         \* Agent.ai_model
    tools,            \* process_response: the local tools
    todo_list,        \* process_response: the local todo_list
    fs,               \* the files on disk: pairs <<path, content>>
    folders,          \* the category folders on disk
    categorized_files,  \* organize_files_by_type: its first argument
    category_index,   \* position of the loop over categorized_files.items()
    file_index,       \* position of the loop over files
    counter           \* the local counter, 0 while no free name is sought

parser_vars == <<response, candidate_index, part_index, ordered_function_calls>>

schema_vars == <<func, tool_type, schema>>
pipeline_vars == <<ai_provider, api_key, ai_model, tools, todo_list>>
files_vars ==
    <<fs, folders, categorized_files, category_index, file_index, counter>>
tool_vars == <<schema_vars, pipeline_vars, files_vars>>

vars == <<function_calls, pc, idx, results, current_path, mapped_args, error,
          outcome, stored_before, log, parser_vars, tool_vars>>

\* no extract_function_call is running
ParserIdle ==
    /\ response = <<>>
    /\ candidate_index = 0
    /\ part_index = 0
    /\ ordered_function_calls = <<>>

\* no schema has been returned
NoSchema ==
    [name |-> "", description |-> <<>>, container |-> "", type_key |-> "",
     type |-> "", properties |-> <<>>, required |-> <<>>]

\* no create_schema is running
SchemaIdle ==
    /\ func = <<>>
    /\ tool_type = ""
    /\ schema = NoSchema

\* no process_response is running
PipelineIdle ==
    /\ ai_provider = ""
    /\ api_key = FALSE
    /\ ai_model = "None"
    /\ tools = <<>>
    /\ todo_list = <<>>

\* no organize_files_by_type is running
FilesIdle ==
    /\ fs = {}
    /\ folders = {}
    /\ categorized_files = <<>>
    /\ category_index = 0
    /\ file_index = 0
    /\ counter = 0

ToolsIdle == SchemaIdle /\ PipelineIdle /\ FilesIdle

NoError == [exc |-> "none", msg |-> "none", pos |-> 0, id |-> <<>>]

Init ==
    /\ function_calls = <<>>
    /\ pc = "idle"
    /\ idx = 0
    /\ results = EmptyStore
    /\ current_path = None
    /\ mapped_args = <<>>
    /\ error = NoError
    /\ outcome = "none"
    /\ stored_before = FALSE
    /\ log = <<>>
    /\ ParserIdle
    /\ ToolsIdle

\* an exception raised inside the try block at loop position idx: the except
\* clause prints it, the finally clause prints the rule, the method returns
Raise(exc, msg, id) ==
    /\ pc' = "done"
    /\ error' = IF ExceptClause(exc)
                THEN [exc |-> exc, msg |-> msg, pos |-> idx, id |-> id]
                ELSE NoError
    /\ outcome' = IF ExceptClause(exc) THEN "returned" ELSE "raised"

\* Agent.dispatch_function up to the call: the lookup function_map.get(name)
DispatchRaises(name) == name \notin function_map

\* os.path.basename(f_path) == 'todo.txt' for the items of file_list
TodoFilePath(file_list) ==
    {n \in 1..Len(file_list.items) : file_list.items[n] = Str(<<"todo.txt">>)}

\* variant: the capability is started and the loop goes on without waiting
EnterCapability_NoWait(function_name, arguments) ==
    /\ pc' = "loop"
    /\ idx' = idx + 1
    /\ mapped_args' = arguments
    /\ log' = Append(log, [ev |-> "invoke", pos |-> idx,
                           name |-> function_name,
                           args |-> arguments, val |-> None])
    /\ UNCHANGED <<error, outcome>>

\* result = self.dispatch_function(...): function_to_call(**arguments) is
\* entered and the loop waits for it (agent.py 206, 251)
EnterCapability(function_name, arguments) ==
    /\ pc' = "call"
    /\ mapped_args' = arguments
    /\ log' = Append(log, [ev |-> "invoke", pos |-> idx,
                           name |-> function_name,
                           args |-> arguments, val |-> None])
    /\ UNCHANGED <<idx, error, outcome>>

\* variant: results lives on the Agent and is not cleared at entry
ExecuteFunctionCalls_KeepsResults(fc) ==
    /\ pc = "idle"
    /\ function_calls' = fc
    /\ idx' = 1
    /\ pc' = "loop"
    /\ mapped_args' = <<>>
    /\ error' = NoError
    /\ outcome' = "none"
    /\ log' = <<>>
    /\ UNCHANGED <<results, current_path, stored_before>>
    /\ UNCHANGED parser_vars
    /\ UNCHANGED tool_vars

\* entry of execute_function_calls (agent.py 160-164)
ExecuteFunctionCalls(fc) ==
    /\ pc = "idle"
    /\ function_calls' = fc
    /\ results' = EmptyStore
    /\ current_path' = None
    /\ idx' = 1
    /\ pc' = "loop"
    /\ mapped_args' = <<>>
    /\ error' = NoError
    /\ outcome' = "none"
    /\ log' = <<>>
    /\ UNCHANGED stored_before
    /\ UNCHANGED parser_vars
    /\ UNCHANGED tool_vars

\* the for loop is exhausted: the try block ends, finally prints, return
LoopExit ==
    /\ pc = "loop"
    /\ idx > Len(function_calls)
    /\ pc' = "done"
    /\ outcome' = "returned"
    /\ UNCHANGED <<function_calls, idx, results, current_path, mapped_args,
                   error, stored_before, log>>
    /\ UNCHANGED parser_vars
    /\ UNCHANGED tool_vars

\* one iteration of the for loop up to the point where the capability is
\* entered (agent.py 165-206)
LoopBody ==
    /\ pc = "loop"
    /\ idx <= Len(function_calls)
    /\ LET function_call == function_calls[idx]
           function_name == function_call.name
           prepared == prepare_arguments(function_call)
           sub == SubstituteLoop(prepared, 1, results)
       IN  IF PrepareRaises(function_call)
           THEN /\ Raise("KeyError", "unknown", <<>>)
                /\ UNCHANGED <<idx, mapped_args, log>>
           ELSE IF ~sub.ok
           THEN /\ Raise("ValueError", "missing", sub.missing)
                /\ UNCHANGED <<idx, mapped_args, log>>
           ELSE IF function_name = "extract_info_from_todo"
           THEN IF /\ "file_path" \in Keys(sub.args)
                   /\ TodoFilePath(Get(sub.args, "file_path")) # {}
                THEN \* dispatch_function raises: the name is not registered
                     /\ Raise("ValueError", "unknown", <<>>)
                     /\ UNCHANGED <<idx, mapped_args, log>>
                ELSE \* continue
                     /\ idx' = idx + 1
                     /\ UNCHANGED <<pc, error, outcome, mapped_args, log>>
           ELSE IF DispatchRaises(function_name)
           THEN /\ Raise("ValueError", "unknown", <<>>)
                /\ UNCHANGED <<idx, mapped_args, log>>
           ELSE EnterCapability(function_name, sub.args)
    /\ UNCHANGED <<function_calls, results, current_path, stored_before>>
    /\ UNCHANGED parser_vars
    /\ UNCHANGED tool_vars

\* variant: the loop does not move on after a result (the call is retried)
CapabilityReturns_NoAdvance(result) ==
    /\ pc = "call"
    /\ results' = StoreSet(results, function_calls[idx].call_id, result)
    /\ log' = Append(log, [ev |-> "return", pos |-> idx,
                           name |-> function_calls[idx].name,
                           args |-> mapped_args, val |-> result])
    /\ pc' = "loop"
    /\ UNCHANGED <<function_calls, idx, current_path, mapped_args, error,
                   outcome, stored_before>>
    /\ UNCHANGED parser_vars
    /\ UNCHANGED tool_vars

\* the capability returns result (agent.py 206-213)
CapabilityReturns(result) ==
    /\ pc = "call"
    /\ LET function_call == function_calls[idx]
       IN  /\ current_path' = IF function_call.name = "get_directory_name"
                              THEN result
                              ELSE current_path
           /\ results' = StoreSet(results, function_call.call_id, result)
           /\ log' = Append(log, [ev |-> "return", pos |-> idx,
                                  name |-> function_call.name,
                                  args |-> mapped_args, val |-> result])
    /\ idx' = idx + 1
    /\ pc' = "loop"
    /\ UNCHANGED <<function_calls, mapped_args, error, outcome,
                   stored_before>>
    /\ UNCHANGED parser_vars
    /\ UNCHANGED tool_vars

\* the capability raises exc (agent.py 215-218)
CapabilityRaises(exc) ==
    /\ pc = "call"
    /\ Raise(exc, "capability", <<>>)
    /\ log' = Append(log, [ev |-> "raise", pos |-> idx,
                           name |-> function_calls[idx].name,
                           args |-> mapped_args, val |-> None])
    /\ UNCHANGED <<function_calls, idx, results, current_path, mapped_args,
                   stored_before>>
    /\ UNCHANGED parser_vars
    /\ UNCHANGED tool_vars

\* the method has returned (agent.py 151): the caller goes on, the frame of
\* the pass is gone; what the pass left in results and current_path stays in
\* the model until the next entry assigns them
ReturnToCaller ==
    /\ pc = "done"
    /\ pc' = "idle"
    /\ function_calls' = <<>>
    /\ idx' = 0
    /\ mapped_args' = <<>>
    /\ error' = NoError
    /\ log' = <<>>
    /\ stored_before' = (stored_before \/ DOMAIN results # {})
    /\ UNCHANGED <<results, current_path, outcome>>
    /\ UNCHANGED parser_vars
    /\ UNCHANGED tool_vars

Next ==
    \/ \E fc \in CallSequences : ExecuteFunctionCalls(fc)
    \/ LoopExit
    \/ LoopBody
    \/ \E result \in ReturnValues : CapabilityReturns(result)
    \/ \E exc \in CapabilityExceptions : CapabilityRaises(exc)
    \/ ReturnToCaller

Spec == Init /\ [][Next]_vars

\* ===================================================================
\* Properties of the dispatch pass
\* ===================================================================
Positions == 1..Len(function_calls)

LogAt(ev, p) == {n \in 1..Len(log) : log[n].ev = ev /\ log[n].pos = p}

\* the capability of the call at position p was entered / returned / raised
Invoked(p) == LogAt("invoke", p) # {}
Returned(p) == LogAt("return", p) # {}
RaisedAt(p) == LogAt("raise", p) # {}

ReturnValue(p) == log[CHOOSE n \in LogAt("return", p) : TRUE].val
InvokeArgs(p) == log[CHOOSE n \in LogAt("invoke", p) : TRUE].args

Registered(p) == function_calls[p].name \in function_map

\* the arguments of the call at position p under their canonical names
Prepared(p) == prepare_arguments(function_calls[p])

\* a str that holds the placeholder prefix somewhere
MentionsPrefix(v) == IsStr(v) /\ \E n \in 1..Len(v.s) : v.s[n] = PREFIX

\* a str that is a placeholder and nothing else: '<result_from_' id '>'
WholePlaceholder(v) ==
    /\ IsStr(v)
    /\ Len(v.s) >= 2
    /\ v.s[1] = PREFIX
    /\ v.s[Len(v.s)] = ">"
    /\ \A n \in 2..(Len(v.s) - 1) : v.s[n] \notin {PREFIX, ">"}

\* the call at position p can run whatever happened before it: its tool is
\* registered and none of its arguments mentions a back-reference
Independent(p) ==
    /\ Registered(p)
    /\ \A n \in 1..Len(Prepared(p)) : ~MentionsPrefix(Prepared(p)[n][2])

\* an argument of the call at position p is the placeholder of a call id that
\* no earlier call of the sequence has
DanglingRef(p) ==
    \E n \in 1..Len(Prepared(p)) :
        /\ WholePlaceholder(Prepared(p)[n][2])
        /\ \A q \in 1..(p - 1) :
               Prepared(p)[n][2] # Placeholder(function_calls[q].call_id)

\* C1: if the capability of the call at position p raises, every later call
\* that could run on its own has been invoked when the pass ends.
C1_FailureIsolation ==
    pc = "done" =>
        \A p \in Positions :
            RaisedAt(p) =>
                \A q \in (p + 1)..Len(function_calls) :
                    Independent(q) => Invoked(q)

\* C2: a call that names an unregistered tool is skipped (not invoked, no
\* result stored) and every later call that could run on its own has been
\* invoked when the pass ends.
C2_UnknownToolRecovery ==
    pc = "done" =>
        \A p \in Positions :
            ~Registered(p) =>
                /\ ~Invoked(p)
                /\ function_calls[p].call_id \notin DOMAIN results
                /\ \A q \in (p + 1)..Len(function_calls) :
                       Independent(q) => Invoked(q)

C4_MissingDependencySurfaced ==
    (/\ pc = "done"
     /\ idx \in Positions
     /\ Registered(idx)
     /\ DanglingRef(idx)) => outcome # "returned"

\* C5: whatever the sequence and whatever the capabilities do, the pass
\* returns normally to its caller; nothing propagates out of it.
C5_ReturnsNormally ==
    /\ outcome # "raised"
    /\ pc = "done" => outcome = "returned"

C5_Witness ==
    /\ pc = "done"
    /\ outcome = "returned"
    /\ error.msg = "capability"
    /\ RaisedAt(idx)

C8_WholeValueOnly ==
    \A p \in Positions :
        \A n \in 1..Len(Prepared(p)) :
            LET arg_name == Prepared(p)[n][1]
                arg_value == Prepared(p)[n][2]
            IN  (MentionsPrefix(arg_value) /\ ~WholePlaceholder(arg_value)) =>
                    /\ Invoked(p) => Get(InvokeArgs(p), arg_name) = arg_value
                    /\ (/\ pc = "done" /\ idx = p /\ error.msg = "missing"
                        /\ Registered(p))
                           => \E m \in 1..Len(Prepared(p)) :
                                  WholePlaceholder(Prepared(p)[m][2])

\* C9: the invocations of a pass come in sequence order, one at a time: an
\* invocation is followed by its own return or raise before the next one
\* starts, and positions only increase.
C9_SequentialOrder ==
    /\ \A n \in 1..Len(log) :
           IF n % 2 = 1
           THEN log[n].ev = "invoke"
           ELSE log[n].ev \in {"return", "raise"} /\ log[n].pos = log[n - 1].pos
    /\ \A m, n \in 1..Len(log) :
           (m < n /\ log[m].ev = "invoke" /\ log[n].ev = "invoke")
               => log[m].pos < log[n].pos
    /\ (pc = "call") <=> (Len(log) % 2 = 1)

C9_Witness ==
    /\ pc = "done"
    /\ Len(function_calls) = 3
    /\ Returned(1) /\ Returned(2) /\ Returned(3)

\* C10: the result store holds only what calls of the current pass returned,
\* under their own call ids; inside a pass no entry is changed or removed;
\* every pass starts with an empty store.
C10_ResultStoreDiscipline ==
    /\ [](pc \in {"loop", "call", "done"} =>
            \A k \in DOMAIN results :
                \E q \in Positions :
                    /\ function_calls[q].call_id = k
                    /\ Returned(q)
                    /\ results[k] = ReturnValue(q))
    /\ [][pc # "idle" =>
            \A k \in DOMAIN results :
                k \in DOMAIN results' /\ results'[k] = results[k]]_vars
    /\ [][pc = "idle" /\ pc' # "idle" => results' = EmptyStore]_vars

C10_Witness ==
    /\ stored_before
    /\ pc = "done"
    /\ Cardinality(DOMAIN results) >= 2

\* the state of the call record at position p in the running pass: EXECUTED
\* once its capability was entered, SKIPPED once the loop went past it
\* without entering it, PENDING before that
CallState(p) ==
    IF Invoked(p) THEN "EXECUTED"
    ELSE IF p < idx THEN "SKIPPED"
    ELSE "PENDING"

\* C11: every record of a pass starts PENDING; a record that is EXECUTED or
\* SKIPPED keeps that state for the rest of the pass; no record's capability
\* is invoked more than once in the pass.
C11_CallStateMachine ==
    /\ []((pc = "loop" /\ idx = 1) =>
             \A p \in Positions : CallState(p) = "PENDING")
    /\ [][(pc # "idle" /\ pc' # "idle") =>
             \A p \in Positions :
                 CallState(p) # "PENDING" => CallState(p)' = CallState(p)]_vars
    /\ [](\A p \in Positions : Cardinality(LogAt("invoke", p)) <= 1)

C11_Witness ==
    /\ pc = "done"
    /\ Len(function_calls) = 3
    /\ CallState(1) = "EXECUTED" /\ Returned(1)
    /\ CallState(2) = "EXECUTED" /\ RaisedAt(2)
    /\ CallState(3) = "PENDING"

\* C12: a call that names the task-list capability extract_info_from_todo and
\* whose arguments can be resolved has its capability invoked when the loop
\* handles it (so that the sub-tasks it returns can be dispatched before the
\* next call of the sequence).
C12_RecursiveTodoDispatch ==
    \A p \in Positions :
        (/\ function_calls[p].name = "extract_info_from_todo"
         /\ ~DanglingRef(p)
         /\ (idx > p \/ (idx = p /\ pc = "done")))
            => Invoked(p)

\* ===================================================================
\* The dispatch pass on calls that leave the working directory out or
\* carry attendees
\* ===================================================================
ContextPool ==
    {[name |-> "get_directory_name", args |-> <<>>],
     [name |-> "scan_directory", args |-> <<>>],
     [name |-> "add_calendar_event", args |-> <<<<"attendees", Plain>>>>],
     [name |-> "add_calendar_event",
      args |-> <<<<"attendees", List(<<Plain, Ok>>)>>>>],
     [name |-> "add_calendar_event", args |-> <<<<"attendees", Ref0>>>>]}

ContextSequences ==
    {WithCallIds(calls) :
        calls \in UNION {[1..n -> ContextPool] : n \in 0..MaxCalls}}

NextContext ==
    \/ \E fc \in ContextSequences : ExecuteFunctionCalls(fc)
    \/ LoopExit
    \/ LoopBody
    \/ \E result \in ReturnValues : CapabilityReturns(result)
    \/ \E exc \in CapabilityExceptions : CapabilityRaises(exc)
    \/ ReturnToCaller

SpecContext == Init /\ [][NextContext]_vars

\* the parameter of a capability that names the directory it works on
\* (scan_directory(path), organize_files_by_type(..., destination_path))
ContextParameter ==
    [scan_directory |-> "path", organize_files_by_type |-> "destination_path"]

\* the latest earlier get_directory_name call that returned
DirectoryCalls(p) ==
    {q \in 1..(p - 1) :
        function_calls[q].name = "get_directory_name" /\ Returned(q)}

LatestDirectoryCall(p) ==
    CHOOSE q \in DirectoryCalls(p) : \A r \in DirectoryCalls(p) : r <= q

C20_ContextInjection ==
    \A p \in Positions :
        (/\ Invoked(p)
         /\ function_calls[p].name \in DOMAIN ContextParameter
         /\ ContextParameter[function_calls[p].name] \notin Keys(Prepared(p))
         /\ DirectoryCalls(p) # {})
            => /\ ContextParameter[function_calls[p].name] \in Keys(InvokeArgs(p))
               /\ Get(InvokeArgs(p), ContextParameter[function_calls[p].name])
                      = ReturnValue(LatestDirectoryCall(p))

\* ===================================================================
\* Agent.prepare_arguments on its own
\* ===================================================================
ArgKeys == {"email_address", "recipient", "email_subject", "attendees", "path"}
ArgValues == {Plain, Ok, List(<<Plain>>)}

\* the dicts with at most MaxArgs entries over ArgKeys and ArgValues
ArgDicts ==
    {a \in UNION {[1..n -> ArgKeys \X ArgValues] : n \in 0..MaxArgs} :
        \A m, n \in 1..Len(a) : m # n => a[m][1] # a[n][1]}

PrepareInputs ==
    {WithCallIds(<<[name |-> name, args |-> a]>>) :
        name \in {"send_email", "organize_files"}, a \in ArgDicts}

InitPrepare ==
    /\ function_calls \in PrepareInputs
    /\ pc = "prepare"
    /\ idx = 1
    /\ results = EmptyStore
    /\ current_path = None
    /\ mapped_args = <<>>
    /\ error = NoError
    /\ outcome = "none"
    /\ stored_before = FALSE
    /\ log = <<>>
    /\ ParserIdle
    /\ ToolsIdle

\* variant: the mapped arguments are written back into the call record
PrepareArguments_InPlace ==
    /\ pc = "prepare"
    /\ ~PrepareRaises(function_calls[idx])
    /\ pc' = "prepared"
    /\ mapped_args' = prepare_arguments(function_calls[idx])
    /\ function_calls' =
           [function_calls EXCEPT ![idx].args = prepare_arguments(function_calls[idx])]
    /\ outcome' = "returned"
    /\ UNCHANGED <<idx, results, current_path, stored_before, log, error>>
    /\ UNCHANGED parser_vars
    /\ UNCHANGED tool_vars

\* one call of prepare_arguments(function_call); the KeyError of the lookup
\* leaves the method
PrepareArguments ==
    /\ pc = "prepare"
    /\ IF PrepareRaises(function_calls[idx])
       THEN /\ pc' = "prepare_raised"
            /\ error' = [exc |-> "KeyError", msg |-> "unknown", pos |-> idx,
                         id |-> <<>>]
            /\ outcome' = "raised"
            /\ UNCHANGED mapped_args
       ELSE /\ pc' = "prepared"
            /\ mapped_args' = prepare_arguments(function_calls[idx])
            /\ outcome' = "returned"
            /\ UNCHANGED error
    /\ UNCHANGED <<function_calls, idx, results, current_path, stored_before,
                   log>>
    /\ UNCHANGED parser_vars
    /\ UNCHANGED tool_vars

NextPrepare == PrepareArguments

SpecPrepare == InitPrepare /\ [][NextPrepare]_vars

\* C18: the mapping prepare_arguments returns has exactly the mapped keys of
\* the call's arguments, and under each mapped key the value supplied for it
\* (a str for attendees wrapped into a list).
C18_ArgumentNameMapping ==
    pc = "prepared" =>
        LET arguments == function_calls[idx].args
        IN  /\ Keys(mapped_args) = {MappedKey(k) : k \in Keys(arguments)}
            /\ \A n \in 1..Len(arguments) :
                   LET key == arguments[n][1]
                       value == arguments[n][2]
                   IN  Get(mapped_args, MappedKey(key))
                           = IF MappedKey(key) = "attendees" /\ IsStr(value)
                             THEN List(<<value>>)
                             ELSE value

\* ===================================================================
\* GeminiIntegration.extract_function_call
\* (src/src/ai_models/gemini_integration.py 68-134)
\*
\* A text is a sequence of tokens: the characters ( ) , = " ' space and
\* newline are tokens of their own, every other token is a run of characters
\* that holds none of them (a word); 'default_api.' is one token.
\* ===================================================================
Whitespace == {" ", "\n"}
Quotes == {"'", "\""}

Range(t) == {t[n] : n \in 1..Len(t)}

\* t[a:b] with positions counted from 1, both ends included
Slice(t, a, b) == IF a > b THEN <<>> ELSE SubSeq(t, a, b)

\* str.strip(chars)
RECURSIVE LStrip(_, _)
LStrip(t, chars) ==
    IF t # <<>> /\ t[1] \in chars THEN LStrip(Tail(t), chars) ELSE t

RECURSIVE RStrip(_, _)
RStrip(t, chars) ==
    IF t # <<>> /\ t[Len(t)] \in chars
    THEN RStrip(Slice(t, 1, Len(t) - 1), chars)
    ELSE t

Strip(t, chars) == RStrip(LStrip(t, chars), chars)

\* str.index(c) and str.rindex(c), for a c that occurs in t
Index(t, c) == CHOOSE n \in 1..Len(t) : t[n] = c /\ \A m \in 1..(n - 1) : t[m] # c
RIndex(t, c) ==
    CHOOSE n \in 1..Len(t) : t[n] = c /\ \A m \in (n + 1)..Len(t) : t[m] # c

\* str.split(c)
RECURSIVE Split(_, _)
Split(t, c) ==
    IF c \notin Range(t)
    THEN <<t>>
    ELSE <<Slice(t, 1, Index(t, c) - 1)>>
             \o Split(Slice(t, Index(t, c) + 1, Len(t)), c)

\* the Python str of a stripped name or key: a word stands for itself; a
\* text of several tokens is no name of the registry and no key of the inputs
Word(t) == IF Len(t) = 1 THEN t[1] ELSE ""

\* the loop "for arg_pair in args_str.split(',')" from piece n on
\* (gemini_integration.py 114-121)
RECURSIVE ParseArgs(_, _, _)
ParseArgs(pieces, n, args) ==
    IF n > Len(pieces)
    THEN args
    ELSE LET arg_pair == Strip(pieces[n], Whitespace)
         IN  IF arg_pair = <<>> \/ "=" \notin Range(arg_pair)
             THEN ParseArgs(pieces, n + 1, args)
             ELSE LET key == Strip(Strip(Slice(arg_pair, 1,
                                 Index(arg_pair, "=") - 1), Whitespace), Quotes)
                      value == Strip(Strip(Slice(arg_pair,
                                 Index(arg_pair, "=") + 1, Len(arg_pair)),
                                 Whitespace), Quotes)
                  IN  ParseArgs(pieces, n + 1,
                                DictSet(args, Word(key), Str(value)))

\* the name of a line that holds '(' (gemini_integration.py 102-105)
LineName(line) ==
    LET name == Strip(Slice(line, 1, Index(line, "(") - 1), Whitespace)
    IN  IF name # <<>> /\ name[1] = "default_api." THEN Tail(name) ELSE name

\* one stripped line (gemini_integration.py 95-124): ok = FALSE when the line
\* yields no record
ParseLine(line, valid_function_names) ==
    IF line = <<>> \/ "(" \notin Range(line) \/ ")" \notin Range(line)
    THEN [ok |-> FALSE, name |-> "", args |-> <<>>]
    ELSE IF Word(LineName(line)) \notin valid_function_names
    THEN [ok |-> FALSE, name |-> "", args |-> <<>>]
    ELSE [ok |-> TRUE,
          name |-> Word(LineName(line)),
          args |-> ParseArgs(
                       Split(Slice(line, Index(line, "(") + 1,
                                   RIndex(line, ")") - 1), ","),
                       1, <<>>)]

\* variant: the new record is put in front of the records accepted so far
AddCall_Prepend(calls, name, args) ==
    <<[call_id |-> CallIdOf(Len(calls)), name |-> name, args |-> args]>>
        \o calls

\* variant: ordered_function_calls[str(len(ordered_function_calls) + 1)]
AddCall_OneBased(calls, name, args) ==
    Append(calls,
           [call_id |-> CallIdOf(Len(calls) + 1), name |-> name,
            args |-> args])

\* ordered_function_calls[str(len(ordered_function_calls))] = function_call
AddCall(calls, name, args) ==
    LET key == CallIdOf(Len(calls))
        function_call == [call_id |-> key, name |-> name, args |-> args]
    IN  IF \E n \in 1..Len(calls) : calls[n].call_id = key
        THEN [n \in 1..Len(calls) |->
                 IF calls[n].call_id = key THEN function_call ELSE calls[n]]
        ELSE Append(calls, function_call)

\* the loop "for line in lines" from line n on (gemini_integration.py 93-128)
RECURSIVE ParseLines(_, _, _, _)
ParseLines(lines, n, calls, valid_function_names) ==
    IF n > Len(lines)
    THEN calls
    ELSE LET parsed == ParseLine(Strip(lines[n], Whitespace),
                                 valid_function_names)
         IN  ParseLines(lines, n + 1,
                        IF parsed.ok
                        THEN AddCall(calls, parsed.name, parsed.args)
                        ELSE calls,
                        valid_function_names)

\* a text part (gemini_integration.py 90-93): part.text.strip().split('\n')
ParseText(text, calls, valid_function_names) ==
    ParseLines(Split(Strip(text, Whitespace), "\n"), 1, calls,
               valid_function_names)

\* ---- responses ----------------------------------------------------
\* A response holds candidates; a candidate holds content.parts, or no
\* content at all; a part holds a function_call (empty when unset) and a
\* text (empty when unset).
NoFunctionCall == [name |-> "", args |-> <<>>]
TextPart(text) == [function_call |-> NoFunctionCall, text |-> text]
CallPart(name, args) ==
    [function_call |-> [name |-> name, args |-> args], text |-> <<>>]
Candidate(parts) == [content |-> TRUE, parts |-> parts]
CandidateNoContent == [content |-> FALSE, parts |-> <<>>]

\* valid_function_names as process_response passes it
ValidFunctionNames == function_map

LineGetDirectory == <<"get_directory_name", "(", ")">>
LineSendEmail ==
    <<"send_email", "(", "email_subject", "=", "\"", "a", "\"", ",", " ",
      "email_body", "=", "\"", "b", "\"", ")">>
LineScanDirectory ==
    <<" ", "default_api.", "scan_directory", "(", "path", "=", "'",
      PREFIX, "0", ">", "'", ")">>
LineUnknownName ==
    <<"organize_files", "(", "source_file", "=", "\"", "a", "\"", ")">>
LineProse == <<"Here", " ", "are", " ", "the", " ", "calls">>
LineBlank == <<" ">>
LinePositional == <<"compress_pdf", "(", "file_paths", ")">>
LinePool ==
    {LineGetDirectory, LineSendEmail, LineScanDirectory, LineUnknownName,
     LineProse, LineBlank, LinePositional}

StructuredKnown == CallPart("get_directory_name", <<>>)
StructuredUnknown == CallPart("organize_files", <<<<"source_file", Plain>>>>)

\* the pieces a response is put together from: a line of text, a structured
\* part, a part with neither, the start of a further candidate, a candidate
\* without content
ItemPool ==
    {[item |-> "line", line |-> l, part |-> TextPart(<<>>)] : l \in LinePool}
    \cup {[item |-> "part", line |-> <<>>, part |-> p] :
              p \in {StructuredKnown, StructuredUnknown, TextPart(<<>>)}}
    \cup {[item |-> m, line |-> <<>>, part |-> TextPart(<<>>)] :
              m \in {"candidate", "no_content"}}

AddPart(candidates, part, mode) ==
    IF mode = "closed"
    THEN Append(candidates, Candidate(<<part>>))
    ELSE [candidates EXCEPT ![Len(candidates)].parts = Append(@, part)]

AddLine(candidates, line, mode) ==
    IF mode = "line"
    THEN LET c == Len(candidates)
             q == Len(candidates[c].parts)
         IN  [candidates EXCEPT ![c].parts[q].text = @ \o <<"\n">> \o line]
    ELSE AddPart(candidates, TextPart(line), mode)

\* mode: "line" when the last part is a text that takes a further line,
\* "part" when the last candidate takes a further part, "closed" otherwise
RECURSIVE BuildResponse(_, _, _, _)
BuildResponse(items, n, candidates, mode) ==
    IF n > Len(items)
    THEN candidates
    ELSE LET it == items[n]
         IN  CASE it.item = "line" ->
                    BuildResponse(items, n + 1,
                                  AddLine(candidates, it.line, mode), "line")
               [] it.item = "part" ->
                    BuildResponse(items, n + 1,
                                  AddPart(candidates, it.part, mode), "part")
               [] it.item = "candidate" ->
                    BuildResponse(items, n + 1,
                                  Append(candidates, Candidate(<<>>)), "part")
               [] it.item = "no_content" ->
                    BuildResponse(items, n + 1,
                                  Append(candidates, CandidateNoContent),
                                  "closed")

\* generate_response hands on a response only when
\* response.candidates[0].content.parts is not empty
\* (gemini_integration.py 60-63)
ItemSequences ==
    UNION {{items \in [1..n -> ItemPool] :
                items[1].item \in {"line", "part"}} : n \in 1..MaxItems}

Responses == {BuildResponse(items, 1, <<>>, "closed") : items \in ItemSequences}

\* ---- the parser as a state machine -----------------------------------
\* extract_function_call(response, valid_function_names) has been called
InitParser ==
    /\ response \in Responses
    /\ candidate_index = 1
    /\ part_index = 1
    /\ ordered_function_calls = <<>>
    /\ pc = "extract"
    /\ function_calls = <<>>
    /\ idx = 0
    /\ results = EmptyStore
    /\ current_path = None
    /\ mapped_args = <<>>
    /\ error = NoError
    /\ outcome = "none"
    /\ stored_before = FALSE
    /\ log = <<>>
    /\ ToolsIdle

dispatch_vars ==
    <<function_calls, idx, results, current_path, mapped_args, stored_before,
      log>>

\* one pass of "for part_index, part in enumerate(candidate.content.parts)"
ExtractPart ==
    /\ pc = "extract"
    /\ candidate_index <= Len(response)
    /\ response[candidate_index].content
    /\ part_index <= Len(response[candidate_index].parts)
    /\ LET part == response[candidate_index].parts[part_index]
       IN  ordered_function_calls' =
               IF part.function_call # NoFunctionCall
               THEN AddCall(ordered_function_calls, part.function_call.name,
                            part.function_call.args)
               ELSE IF part.text # <<>>
               THEN ParseText(part.text, ordered_function_calls,
                              ValidFunctionNames)
               ELSE ordered_function_calls
    /\ part_index' = part_index + 1
    /\ UNCHANGED <<response, candidate_index, pc, error, outcome>>
    /\ UNCHANGED dispatch_vars
    /\ UNCHANGED tool_vars

\* the parts of a candidate are exhausted: "for candidate in
\* response.candidates" takes the next one
NextCandidate ==
    /\ pc = "extract"
    /\ candidate_index <= Len(response)
    /\ response[candidate_index].content
    /\ part_index > Len(response[candidate_index].parts)
    /\ candidate_index' = candidate_index + 1
    /\ part_index' = 1
    /\ UNCHANGED <<response, ordered_function_calls, pc, error, outcome>>
    /\ UNCHANGED dispatch_vars
    /\ UNCHANGED tool_vars

\* candidate.content.parts of a candidate without content raises; the outer
\* except clause returns a fresh OrderedDict()
CandidateWithoutContent ==
    /\ pc = "extract"
    /\ candidate_index <= Len(response)
    /\ ~response[candidate_index].content
    /\ ordered_function_calls' = <<>>
    /\ error' = [exc |-> "AttributeError", msg |-> "extracting",
                 pos |-> candidate_index, id |-> <<>>]
    /\ pc' = "extracted"
    /\ outcome' = "returned"
    /\ UNCHANGED <<response, candidate_index, part_index>>
    /\ UNCHANGED dispatch_vars
    /\ UNCHANGED tool_vars

\* return ordered_function_calls
ExtractReturn ==
    /\ pc = "extract"
    /\ candidate_index > Len(response)
    /\ pc' = "extracted"
    /\ outcome' = "returned"
    /\ UNCHANGED <<response, candidate_index, part_index,
                   ordered_function_calls, error>>
    /\ UNCHANGED dispatch_vars
    /\ UNCHANGED tool_vars

NextParser ==
    \/ ExtractPart
    \/ NextCandidate
    \/ CandidateWithoutContent
    \/ ExtractReturn

SpecParser == InitParser /\ [][NextParser]_vars

\* ---- properties of the parser -------------------------------------
Extracted == pc = "extracted"

\* the parts of all candidates, in the order of the response
RECURSIVE PartsFrom(_, _)
PartsFrom(resp, c) ==
    IF c > Len(resp) THEN <<>> ELSE resp[c].parts \o PartsFrom(resp, c + 1)

AllParts(resp) == PartsFrom(resp, 1)

\* every candidate has content and no part is a structured call
FreeText(resp) ==
    /\ \A c \in 1..Len(resp) : resp[c].content
    /\ \A q \in 1..Len(AllParts(resp)) :
           AllParts(resp)[q].function_call = NoFunctionCall

StrippedLines(text) ==
    LET lines == Split(Strip(text, Whitespace), "\n")
    IN  [n \in 1..Len(lines) |-> Strip(lines[n], Whitespace)]

\* the lines of all text parts, in the order of the response
RECURSIVE LinesFrom(_, _)
LinesFrom(parts, q) ==
    IF q > Len(parts)
    THEN <<>>
    ELSE (IF parts[q].text = <<>> THEN <<>> ELSE StrippedLines(parts[q].text))
             \o LinesFrom(parts, q + 1)

AllLines(resp) == LinesFrom(AllParts(resp), 1)

ValidLine(line) == ParseLine(line, ValidFunctionNames).ok

ValidLines(resp) == SelectSeq(AllLines(resp), ValidLine)

TwoLineResponse ==
    <<Candidate(<<TextPart(LineGetDirectory \o <<"\n">> \o LineSendEmail)>>)>>

\* C13: for a free-text response the returned records are the valid lines of
\* the input in their order of appearance, each with its own name and its own
\* key/value pairs; get_directory_name() followed by
\* send_email(email_subject="a", email_body="b") yields exactly these two
\* records in that order.
C13_ParserOrderPreservation ==
    (Extracted /\ FreeText(response)) =>
        /\ Len(ordered_function_calls) = Len(ValidLines(response))
        /\ \A n \in 1..Len(ordered_function_calls) :
               LET parsed == ParseLine(ValidLines(response)[n],
                                       ValidFunctionNames)
               IN  /\ ordered_function_calls[n].name = parsed.name
                   /\ ordered_function_calls[n].args = parsed.args
        /\ response = TwoLineResponse =>
               ordered_function_calls =
                   <<[call_id |-> <<"0">>, name |-> "get_directory_name",
                      args |-> <<>>],
                     [call_id |-> <<"1">>, name |-> "send_email",
                      args |-> <<<<"email_subject", Str(<<"a">>)>>,
                                 <<"email_body", Str(<<"b">>)>>>>]>>

C13_Witness ==
    /\ Extracted
    /\ FreeText(response)
    /\ Len(AllLines(response)) = 3
    /\ ~ValidLine(AllLines(response)[2])
    /\ Len(ordered_function_calls) = 2
    /\ ordered_function_calls[1].name = "send_email"
    /\ ordered_function_calls[2].name = "scan_directory"
    /\ ordered_function_calls[2].args = <<<<"path", Ref0>>>>

\* C14: every record of the returned sequence has a name that is a member of
\* valid_function_names, whether it came from a free-text line or from a
\* structured function_call part.
C14_UnknownNamesDropped ==
    Extracted =>
        \A n \in 1..Len(ordered_function_calls) :
            ordered_function_calls[n].name \in ValidFunctionNames

\* the pieces of the argument text of a line that holds '(' and ')'
ArgPieces(line) ==
    LET pieces == Split(Slice(line, Index(line, "(") + 1,
                              RIndex(line, ")") - 1), ",")
    IN  SelectSeq([n \in 1..Len(pieces) |-> Strip(pieces[n], Whitespace)],
                  LAMBDA piece : piece # <<>>)

\* a '(' with a ')' somewhere after it
ParenPair(line) ==
    \E a \in 1..Len(line) : \E b \in (a + 1)..Len(line) :
        line[a] = "(" /\ line[b] = ")"

\* the line rejection rule as stated: a line yields a record only when it is
\* not blank, has a '(' / ')' pair, a valid name, and every piece of its
\* argument text can be split on '='
PassesRejectionRule(line) ==
    /\ line # <<>>
    /\ ParenPair(line)
    /\ Word(LineName(line)) \in ValidFunctionNames
    /\ \A n \in 1..Len(ArgPieces(line)) : "=" \in Range(ArgPieces(line)[n])

\* C15: a non-blank line yields no record when its name is not valid, when it
\* has no '(' / ')' pair, or when a piece of its argument text cannot be split
\* on '='; only that line is skipped, so a free-text response yields one
\* record for each line that passes the rule, in order.
C15_LineRejectionRule ==
    (Extracted /\ FreeText(response)) =>
        LET passing == SelectSeq(AllLines(response), PassesRejectionRule)
        IN  /\ Len(ordered_function_calls) = Len(passing)
            /\ \A n \in 1..Len(passing) :
                   ordered_function_calls[n].name = Word(LineName(passing[n]))

\* no line of a text part is valid and no structured part has a valid name
ZeroValidEntries(resp) ==
    /\ ValidLines(resp) = <<>>
    /\ \A q \in 1..Len(AllParts(resp)) :
           AllParts(resp)[q].function_call.name \notin ValidFunctionNames

\* C16: a response with zero valid entries (only blank lines, malformed lines
\* or unknown names) makes extract_function_call return an empty sequence,
\* and it returns rather than raises.
C16_ZeroValidEntries ==
    (Extracted /\ ZeroValidEntries(response)) =>
        /\ ordered_function_calls = <<>>
        /\ outcome = "returned"

\* C17: the call ids of the returned sequence are unique and are the
\* zero-based positions of the records in the output, whatever was dropped in
\* between and whether the records came from structured parts or from lines.
C17_CallIdAssignment ==
    Extracted =>
        /\ \A n \in 1..Len(ordered_function_calls) :
               ordered_function_calls[n].call_id = CallIdOf(n - 1)
        /\ \A m, n \in 1..Len(ordered_function_calls) :
               ordered_function_calls[m].call_id
                   = ordered_function_calls[n].call_id => m = n

C17_Witness ==
    /\ Extracted
    /\ Len(AllParts(response)) = 2
    /\ AllParts(response)[1] = StructuredKnown
    /\ AllLines(response) = <<LineUnknownName, LineSendEmail>>
    /\ Len(ordered_function_calls) = 2
    /\ ordered_function_calls[1].name = "get_directory_name"
    /\ ordered_function_calls[2].name = "send_email"
    /\ ordered_function_calls[2].call_id = <<"1">>

\* ===================================================================
\* Agent.prepare_arguments as a step (src/src/agent.py 220-234)
\* ===================================================================
\* C21: prepare_arguments invokes no capability, leaves the call record and
\* its args as they were passed in, and leaves the result store alone (the
\* registry function_map and the name table arg_mapping are fixed tables).
C21_PrepareArgumentsPure ==
    [][PrepareArguments =>
          /\ function_calls' = function_calls
          /\ results' = results
          /\ log' = log
          /\ current_path' = current_path]_vars

C21_Witness ==
    /\ pc = "prepared"
    /\ "email_address" \in Keys(function_calls[1].args)
    /\ "attendees" \in Keys(function_calls[1].args)
    /\ mapped_args # function_calls[1].args
    /\ log = <<>>

\* C28: the mapping prepare_arguments returns has as many entries as the
\* record's args; two distinct argument names supplied in one call never
\* collapse onto one key.
C28_MappingLosesNoArgument ==
    pc = "prepared" =>
        /\ Len(mapped_args) = Len(function_calls[1].args)
        /\ \A m, n \in 1..Len(function_calls[1].args) :
               m # n => MappedKey(function_calls[1].args[m][1])
                            # MappedKey(function_calls[1].args[n][1])

\* ===================================================================
\* Further properties of GeminiIntegration.extract_function_call
\* ===================================================================
\* C26: a record the parser has accepted is never lost: whatever happens at
\* a later line, part or candidate, the records accepted so far stay in the
\* sequence, at their positions, up to the return.
C26_NeverLosesAccepted ==
    [][\A n \in 1..Len(ordered_function_calls) :
           /\ Len(ordered_function_calls') >= n
           /\ ordered_function_calls'[n] = ordered_function_calls[n]]_vars

\* ---- argument fidelity ---------------------------------------------
\* the text k1="v1", k2="v2", ... of the entries of args from entry n on
RECURSIVE FormatArgs(_, _)
FormatArgs(args, n) ==
    IF n > Len(args)
    THEN <<>>
    ELSE (IF n > 1 THEN <<",", " ">> ELSE <<>>)
             \o <<args[n][1], "=", "\"">> \o args[n][2].s \o <<"\"">>
             \o FormatArgs(args, n + 1)

\* the line name(k1="v1", ..., kn="vn")
FormatLine(name, args) == <<name, "(">> \o FormatArgs(args, 1) \o <<")">>

FidelityKeys == {"email_subject", "email_body", "recipient"}
FidelityValues ==
    {Str(<<"a">>), Str(<<"a", ",", "b">>), Str(<<"a", "=", "b">>),
     Str(<<"(", "a", ")">>)}

\* the calls send_email(...) with at most MaxArgs arguments of distinct keys
FidelityCalls ==
    {[name |-> "send_email", args |-> a] :
        a \in {a \in UNION {[1..n -> FidelityKeys \X FidelityValues] :
                                n \in 0..MaxArgs} :
                  \A m, n \in 1..Len(a) : m # n => a[m][1] # a[n][1]}}

LineResponse(call) ==
    <<Candidate(<<TextPart(FormatLine(call.name, call.args))>>)>>

\* extract_function_call has been called with a response of one text line
InitFidelity ==
    /\ response \in {LineResponse(call) : call \in FidelityCalls}
    /\ candidate_index = 1
    /\ part_index = 1
    /\ ordered_function_calls = <<>>
    /\ pc = "extract"
    /\ function_calls = <<>>
    /\ idx = 0
    /\ results = EmptyStore
    /\ current_path = None
    /\ mapped_args = <<>>
    /\ error = NoError
    /\ outcome = "none"
    /\ stored_before = FALSE
    /\ log = <<>>
    /\ ToolsIdle

NextFidelity ==
    \/ ExtractPart
    \/ NextCandidate
    \/ ExtractReturn

SpecFidelity == InitFidelity /\ [][NextFidelity]_vars

\* C27: for an accepted line name(k1="v1", ..., kn="vn") with distinct keys
\* the parsed args map each ki to exactly vi, also when vi holds a comma, an
\* '=' sign or a parenthesis: no key is lost and no value is truncated.
C27_ArgumentFidelity ==
    \A call \in FidelityCalls :
        (Extracted /\ response = LineResponse(call)) =>
            ordered_function_calls =
                <<[call_id |-> <<"0">>, name |-> call.name,
                   args |-> call.args]>>

\* ===================================================================
\* create_schema and the three schema builders
\* (src/src/tools/tool_schema.py)
\*
\* A callable is its __name__, its signature (the parameters in declaration
\* order, each with its annotation and whether it has a default) and its
\* docstring as inspect.getdoc returns it: a sequence of lines, each a
\* sequence of tokens (':' and ' ' are tokens of their own, <<>> is an empty
\* line, a callable without docstring has no line).
\* A schema is a record: container is the key of the parameter object
\* ('parameters' or 'input_schema'), type_key the key under which the
\* parameter object and every property carry their type.
\* ===================================================================
\* the text of lines from line n on, joined with newlines
RECURSIVE JoinLines(_, _)
JoinLines(lines, n) ==
    IF n > Len(lines)
    THEN <<>>
    ELSE (IF n > 1 THEN <<"\n">> ELSE <<>>) \o lines[n]
             \o JoinLines(lines, n + 1)

\* doc.split('\n\n')[0]: the lines before the first empty line
RECURSIVE FirstParagraph(_, _)
FirstParagraph(doc, n) ==
    IF n > Len(doc) \/ doc[n] = <<>>
    THEN <<>>
    ELSE <<doc[n]>> \o FirstParagraph(doc, n + 1)

Description(doc) == JoinLines(FirstParagraph(doc, 1), 1)

\* line.strip().startswith(':param ')
IsParamLine(line) ==
    LET t == Strip(line, Whitespace)
    IN  Len(t) >= 3 /\ t[1] = ":" /\ t[2] = "param" /\ t[3] = " "

\* line.split(':param ')[1].split(':')[0].strip(), for a line that starts
\* with ':param ' and holds it once
ParamName(line) ==
    LET t == Strip(line, Whitespace)
    IN  Word(Strip(Split(Slice(t, 4, Len(t)), ":")[1], Whitespace))

\* line.split(':', 2)[-1].strip(): the text after the second colon, after
\* the first one when there is only one
ParamDescription(line) ==
    LET pieces == Split(line, ":")
    IN  Strip(IF Len(pieces) <= 3
              THEN pieces[Len(pieces)]
              ELSE Slice(line, Len(pieces[1]) + Len(pieces[2]) + 3, Len(line)),
              Whitespace)

\* the loop "for line in doc.split('\n')" from line n on
RECURSIVE ParamDescriptions(_, _, _)
ParamDescriptions(doc, n, param_descriptions) ==
    IF n > Len(doc)
    THEN param_descriptions
    ELSE ParamDescriptions(doc, n + 1,
             IF IsParamLine(doc[n])
             THEN DictSet(param_descriptions, ParamName(doc[n]),
                          ParamDescription(doc[n]))
             ELSE param_descriptions)

\* param_descriptions.get(name, '')
DescriptionOf(param_descriptions, name) ==
    IF name \in Keys(param_descriptions)
    THEN Get(param_descriptions, name)
    ELSE <<>>

\* the type token of a parameter among the tokens of a builder; an
\* annotation of "empty" stands for inspect.Parameter.empty, which counts as
\* str
JsonType(annotation, types) ==
    IF annotation \in {"int", "float"} THEN types.number
    ELSE IF annotation = "bool" THEN types.boolean
    ELSE types.string

\* self.schema[...]['properties'][name] = {'type': ..., 'description': ...}
Property(param, descriptions, types) ==
    [name |-> param.name,
     type_key |-> "type",
     type |-> JsonType(param.annotation, types),
     description |-> DescriptionOf(descriptions, param.name)]

\* variant: the receiver is listed like any other parameter
RECURSIVE BuildProperties_KeepsSelf(_, _, _, _)
BuildProperties_KeepsSelf(parameters, n, descriptions, types) ==
    IF n > Len(parameters)
    THEN [properties |-> <<>>, required |-> <<>>]
    ELSE LET param == parameters[n]
             rest == BuildProperties_KeepsSelf(parameters, n + 1,
                                               descriptions, types)
         IN  [properties |->
                  <<Property(param, descriptions, types)>> \o rest.properties,
              required |->
                  (IF param.has_default THEN <<>> ELSE <<param.name>>)
                      \o rest.required]

\* the loop "for name, param in sig.parameters.items()" from parameter n on
RECURSIVE BuildProperties(_, _, _, _)
BuildProperties(parameters, n, descriptions, types) ==
    IF n > Len(parameters)
    THEN [properties |-> <<>>, required |-> <<>>]
    ELSE LET param == parameters[n]
             rest == BuildProperties(parameters, n + 1, descriptions, types)
         IN  IF param.name = "self"
             THEN rest
             ELSE [properties |->
                       <<Property(param, descriptions, types)>>
                           \o rest.properties,
                   required |->
                       (IF param.has_default THEN <<>> ELSE <<param.name>>)
                           \o rest.required]

UpperTypes ==
    [object |-> "OBJECT", string |-> "STRING", number |-> "NUMBER",
     boolean |-> "BOOLEAN"]
LowerTypes ==
    [object |-> "object", string |-> "string", number |-> "number",
     boolean |-> "boolean"]
\* the anthropic builder: 'object' for the parameter object, upper case for
\* the properties
AnthropicTypes == [UpperTypes EXCEPT !.object = "object"]

BuildSchema(f, container, types) ==
    LET built == BuildProperties(f.parameters, 1,
                                 ParamDescriptions(f.doc, 1, <<>>), types)
    IN  [name |-> f.name,
         description |-> Description(f.doc),
         container |-> container,
         type_key |-> "type",
         type |-> types.object,
         properties |-> built.properties,
         required |-> built.required]

SchemaBuilderGemini(f) == BuildSchema(f, "parameters", UpperTypes)

SchemaBuilderOpenAI(f) == BuildSchema(f, "parameters", LowerTypes)

\* variant: the anthropic builder does not read the ':param' lines
SchemaBuilderAnthropic_NoParamLines(f) ==
    [BuildSchema(f, "input_schema", AnthropicTypes)
        EXCEPT !.properties =
            [n \in 1..Len(@) |-> [@[n] EXCEPT !.description = <<>>]]]

SchemaBuilderAnthropic(f) == BuildSchema(f, "input_schema", AnthropicTypes)

ToolTypes == {"gemini", "openai", "anthropic"}

\* variant: an unknown format token falls back to the gemini builder
CreateSchemaRaises_Never(type) == FALSE

\* the else branch of create_schema: ValueError("Invalid tool type: ...")
CreateSchemaRaises(type) == type \notin ToolTypes

\* builder.schema, for a tool type that does not raise
create_schema(f, type) ==
    IF type = "openai" THEN SchemaBuilderOpenAI(f)
    ELSE IF type = "anthropic" THEN SchemaBuilderAnthropic(f)
    ELSE SchemaBuilderGemini(f)

\* ---- callables ------------------------------------------------------
Param(name, annotation, has_default) ==
    [name |-> name, annotation |-> annotation, has_default |-> has_default]

ParamNames == {"key", "value", "count"}
Annotations == {"str", "int", "float", "bool", "empty"}

\* the declared parameters after the receiver: at most MaxParams, distinct
\* names, no parameter without default after one with a default
Signatures ==
    {sig \in UNION {[1..n -> [name : ParamNames, annotation : Annotations,
                              has_default : BOOLEAN]] : n \in 0..MaxParams} :
        /\ \A m, n \in 1..Len(sig) : m # n => sig[m].name # sig[n].name
        /\ \A m, n \in 1..Len(sig) :
               (m < n /\ sig[m].has_default) => sig[n].has_default}

Receiver == Param("self", "empty", FALSE)

DocNone == <<>>
DocFull ==
    <<<<"Looks", " ", "up", " ", "a", " ", "user">>,
      <<>>,
      <<":", "param", " ", "key", ":", " ", "The", " ", "attribute">>,
      <<":", "param", " ", "value", ":", " ", "Format", ":", " ", "text">>,
      <<":", "return", ":">>>>
DocNoBlankLine ==
    <<<<"Counts", " ", "entries">>,
      <<" ", ":", "param", " ", "count", ":", " ", "How", " ", "many">>>>
Docs == {DocNone, DocFull, DocNoBlankLine}

Callables ==
    {[name |-> "get_user", parameters |-> prefix \o sig, doc |-> doc] :
        prefix \in {<<>>, <<Receiver>>}, sig \in Signatures, doc \in Docs}

\* ---- create_schema as a step ---------------------------------------
\* create_schema(func, tool_type) has been called
InitSchema ==
    /\ func \in Callables
    /\ tool_type \in ToolTypes \cup {"xml"}
    /\ schema = NoSchema
    /\ pc = "create"
    /\ function_calls = <<>>
    /\ idx = 0
    /\ results = EmptyStore
    /\ current_path = None
    /\ mapped_args = <<>>
    /\ error = NoError
    /\ outcome = "none"
    /\ stored_before = FALSE
    /\ log = <<>>
    /\ ParserIdle
    /\ PipelineIdle
    /\ FilesIdle

CreateSchema ==
    /\ pc = "create"
    /\ IF CreateSchemaRaises(tool_type)
       THEN /\ pc' = "create_raised"
            /\ error' = [exc |-> "ValueError", msg |-> "Invalid tool type",
                         pos |-> 0, id |-> <<>>]
            /\ outcome' = "raised"
            /\ UNCHANGED schema
       ELSE /\ pc' = "created"
            /\ schema' = create_schema(func, tool_type)
            /\ outcome' = "returned"
            /\ UNCHANGED error
    /\ UNCHANGED <<func, tool_type>>
    /\ UNCHANGED <<pipeline_vars, files_vars>>
    /\ UNCHANGED dispatch_vars
    /\ UNCHANGED parser_vars

NextSchema == CreateSchema

SpecSchema == InitSchema /\ [][NextSchema]_vars

\* the declared parameters without the implicit receiver in first place
Declared(f) ==
    IF f.parameters # <<>> /\ f.parameters[1].name = "self"
    THEN Tail(f.parameters)
    ELSE f.parameters

\* C22: create_schema lists exactly one property per declared parameter, in
\* declaration order, minus the implicit receiver in first place, and the
\* required list holds exactly the listed parameters without default value,
\* in that order.
C22_SchemaParameterSet ==
    pc = "created" =>
        /\ Len(schema.properties) = Len(Declared(func))
        /\ \A n \in 1..Len(schema.properties) :
               schema.properties[n].name = Declared(func)[n].name
        /\ schema.required =
               LET required ==
                       SelectSeq(Declared(func),
                                 LAMBDA param : ~param.has_default)
               IN  [n \in 1..Len(required) |-> required[n].name]

C22_Witness ==
    /\ pc = "created"
    /\ Len(func.parameters) = 3
    /\ func.parameters[1].name = "self"
    /\ func.parameters[3].has_default
    /\ Len(schema.properties) = 2
    /\ schema.required = <<func.parameters[2].name>>

\* str.lower() on the type tokens of the builders
Lower(token) ==
    CASE token = "OBJECT" -> "object"
      [] token = "STRING" -> "string"
      [] token = "NUMBER" -> "number"
      [] token = "BOOLEAN" -> "boolean"
      [] OTHER -> token

\* two schemas agree in everything but field names and letter case
SameContent(a, b) ==
    /\ a.name = b.name
    /\ a.description = b.description
    /\ a.required = b.required
    /\ Lower(a.type) = Lower(b.type)
    /\ Len(a.properties) = Len(b.properties)
    /\ \A n \in 1..Len(a.properties) :
           /\ a.properties[n].name = b.properties[n].name
           /\ a.properties[n].description = b.properties[n].description
           /\ Lower(a.properties[n].type) = Lower(b.properties[n].type)

C24_GeminiWireFormat ==
    (pc = "created" /\ tool_type = "gemini") =>
        /\ schema.container = "parameters"
        /\ schema.type_key = "type_"
        /\ schema.type = "OBJECT"
        /\ \A n \in 1..Len(schema.properties) :
               /\ schema.properties[n].type_key = "type_"
               /\ schema.properties[n].type \in {"STRING", "NUMBER", "BOOLEAN"}
        /\ Len(schema.required) =
               Len(SelectSeq(Declared(func), LAMBDA param : ~param.has_default))

\* C25: create_schema with a format token other than 'gemini', 'openai' or
\* 'anthropic' raises ValueError to its caller and returns no schema; with
\* each of the three tokens it returns a schema and raises nothing.
C25_UnsupportedFormat ==
    pc \in {"created", "create_raised"} =>
        /\ tool_type \notin ToolTypes =>
               /\ outcome = "raised"
               /\ error.exc = "ValueError"
               /\ schema = NoSchema
        /\ tool_type \in ToolTypes =>
               /\ outcome = "returned"
               /\ error = NoError
               /\ schema.name = func.name
               /\ schema.container \in {"parameters", "input_schema"}

C25_Witness ==
    /\ pc = "create_raised"
    /\ tool_type = "xml"
    /\ outcome = "raised"
    /\ schema = NoSchema
    /\ Len(func.parameters) = 2

\* ===================================================================
\* Agent.process_response (src/src/agent.py 106-154)
\* ===================================================================
\* the keys of ai_providers (agent.py 94-99)
Providers == {"gemini", "deepseek", "openai"}

\* the providers whose constructor raises ValueError without an API key
\* (deepseek_integration.py 32-34, openai_integration.py 32-34)
NeedsApiKey == {"deepseek", "openai"}

IntegrationClass ==
    [gemini |-> "GeminiIntegration", deepseek |-> "DeepSeekIntegration",
     openai |-> "OpenAIIntegration"]

\* the callables collect_tools builds a schema for, in its order
\* (agent.py 74-84)
CollectedTools ==
    <<"get_directory_name", "scan_directory", "identify_file_types",
      "organize_files_by_type", "compress_image", "compress_pdf",
      "send_email", "add_calendar_event", "schedule_daily_stock_update">>

\* Path.home() / "Desktop" / "todo.txt"
TodoPath == [dir |-> "Desktop", base |-> <<"todo">>, ext |-> ".txt"]

TodoLines == {<<"send", " ", "mail">>, <<"add", " ", "event">>}

\* the disk holds no todo.txt, or one of at most MaxItems lines
TodoFiles ==
    {{}} \cup {{<<TodoPath, lines>>} :
                   lines \in UNION {[1..n -> TodoLines] : n \in 0..MaxItems}}

\* organizer_prompt is declared without parameter (prompts/prompt.py 8):
\* called with one argument it raises TypeError
OrganizerPromptParameters == 0
OrganizerPromptRaises(arguments) == Len(arguments) # OrganizerPromptParameters

\* Agent(ai_provider).process_response() has been called
InitPipeline ==
    /\ ai_provider \in Providers \cup {"anthropic"}
    /\ api_key \in BOOLEAN
    /\ ai_model = "None"
    /\ tools = <<>>
    /\ todo_list = <<>>
    /\ fs \in TodoFiles
    /\ folders = {}
    /\ categorized_files = <<>>
    /\ category_index = 0
    /\ file_index = 0
    /\ counter = 0
    /\ pc = "collect"
    /\ function_calls = <<>>
    /\ idx = 0
    /\ results = EmptyStore
    /\ current_path = None
    /\ mapped_args = <<>>
    /\ error = NoError
    /\ outcome = "none"
    /\ stored_before = FALSE
    /\ log = <<>>
    /\ ParserIdle
    /\ SchemaIdle

\* the handler of agent.py 153-154: the exception is printed and
\* process_response returns
StageFails(exc, stage) ==
    /\ pc' = "done"
    /\ error' = [exc |-> exc, msg |-> stage, pos |-> 0, id |-> <<>>]
    /\ outcome' = "returned"

\* tools = self.collect_tools() (agent.py 112)
CollectTools ==
    /\ pc = "collect"
    /\ tools' = CollectedTools
    /\ pc' = "initialize"
    /\ UNCHANGED <<ai_provider, api_key, ai_model, todo_list, error, outcome>>
    /\ UNCHANGED <<schema_vars, files_vars>>
    /\ UNCHANGED dispatch_vars
    /\ UNCHANGED parser_vars

\* self._initialize_ai_model(tools) (agent.py 118, 88-104)
InitializeAiModel ==
    /\ pc = "initialize"
    /\ IF ai_provider \notin Providers
          \/ (ai_provider \in NeedsApiKey /\ ~api_key)
       THEN /\ StageFails("ValueError", "initialize")
            /\ UNCHANGED ai_model
       ELSE /\ ai_model' = IntegrationClass[ai_provider]
            /\ pc' = "prompt"
            /\ UNCHANGED <<error, outcome>>
    /\ UNCHANGED <<ai_provider, api_key, tools, todo_list>>
    /\ UNCHANGED <<schema_vars, files_vars>>
    /\ UNCHANGED dispatch_vars
    /\ UNCHANGED parser_vars

\* the todo list is read and organizer_prompt(todo_list) is called
\* (agent.py 121-127); the statements after the call (agent.py 128-151) run
\* only when it returns
OrganizerPrompt ==
    /\ pc = "prompt"
    /\ todo_list' = IF \E f \in fs : f[1] = TodoPath
                    THEN (CHOOSE f \in fs : f[1] = TodoPath)[2]
                    ELSE <<>>
    /\ OrganizerPromptRaises(<<todo_list'>>)
    /\ StageFails("TypeError", "prompt")
    /\ UNCHANGED <<ai_provider, api_key, ai_model, tools>>
    /\ UNCHANGED <<schema_vars, files_vars>>
    /\ UNCHANGED dispatch_vars
    /\ UNCHANGED parser_vars

NextPipeline ==
    \/ CollectTools
    \/ InitializeAiModel
    \/ OrganizerPrompt

SpecPipeline == InitPipeline /\ [][NextPipeline]_vars

\* the stages of the pipeline before dispatch: tool collection, model
\* initialization, the model's response, extraction
PipelineStages == {"collect", "initialize", "response", "extraction"}

\* C29: for each accepted provider, process_response goes from tool
\* collection and model initialization on to the provider's response, its
\* extraction and the dispatch; it ends before dispatch only by a failure of
\* one of these stages, and then no capability has been invoked and no
\* exception leaves process_response.
C29_ProviderPipeline ==
    pc = "done" =>
        /\ outcome = "returned"
        /\ error # NoError =>
               /\ log = <<>>
               /\ ai_provider \in Providers => error.msg \in PipelineStages

\* ===================================================================
\* organize_files_by_type
\* (src/src/tools/system_tools/system_tools.py 92-130)
\*
\* A path is a record: its folder, the tokens of the base name and the
\* extension. The disk fs holds pairs <<path, content>>, at most one per
\* path; the content of a file is the path it had at the start.
\* destination_path/category is the folder named by the category.
\* ===================================================================
Path(dir, base, ext) == [dir |-> dir, base |-> base, ext |-> ext]

\* os.path.exists
Exists(disk, path) == \E f \in disk : f[1] = path

\* os.path.join(category_path, f"{base}_{counter}{ext}")
Numbered(path, n) == [path EXCEPT !.base = @ \o <<"_", DigitChars[n + 1]>>]

\* shutil.move(src, dst) of an existing file: a file at dst is replaced
Move(disk, src, dst) ==
    LET content == (CHOOSE f \in disk : f[1] = src)[2]
    IN  {f \in disk : f[1] # src /\ f[1] # dst} \cup {<<dst, content>>}

\* the files the caller may list under 'documents'
DocumentPaths ==
    {Path("inbox", <<"a">>, ".txt"), Path("desk", <<"a">>, ".txt"),
     Path("inbox", <<"a", "_", "1">>, ".txt"),
     Path("documents", <<"a">>, ".txt")}
ImagePath == Path("inbox", <<"b">>, ".png")

\* the files outside the category folders
SourceFiles ==
    {<<path, path>> : path \in {q \in DocumentPaths : q.dir # "documents"}
                                   \cup {ImagePath}}

\* what the folder 'documents' may hold at the start
FolderPaths ==
    {Path("documents", <<"a">>, ".txt"),
     Path("documents", <<"a", "_", "1">>, ".txt"),
     Path("documents", <<"a", "_", "2">>, ".txt")}

CategorizedInputs ==
    {<<<<"documents", documents>>, <<"images", images>>>> :
        documents \in UNION {[1..n -> DocumentPaths] : n \in 0..MaxFiles},
        images \in {<<>>, <<ImagePath>>}}

\* organize_files_by_type(categorized_files, destination_path) has been
\* called
InitFiles ==
    /\ categorized_files \in CategorizedInputs
    /\ \E held \in SUBSET FolderPaths :
           fs = SourceFiles \cup {<<path, path>> : path \in held}
    /\ folders \in {{}, {"documents"}}
    /\ (\E f \in fs : f[1].dir = "documents") => "documents" \in folders
    /\ category_index = 1
    /\ file_index = 0
    /\ counter = 0
    /\ pc = "category"
    /\ function_calls = <<>>
    /\ idx = 0
    /\ results = EmptyStore
    /\ current_path = None
    /\ mapped_args = <<>>
    /\ error = NoError
    /\ outcome = "none"
    /\ stored_before = FALSE
    /\ log = <<>>
    /\ ParserIdle
    /\ SchemaIdle
    /\ PipelineIdle

Category == categorized_files[category_index][1]
Files == categorized_files[category_index][2]
FilePath == Files[file_index]

\* os.path.join(category_path, os.path.basename(file_path))
PlainDestination == [FilePath EXCEPT !.dir = Category]

\* dest_path as it stands when the file is moved
DestPath ==
    IF counter = 0 THEN PlainDestination ELSE Numbered(PlainDestination, counter)

files_frame ==
    /\ UNCHANGED <<schema_vars, pipeline_vars>>
    /\ UNCHANGED dispatch_vars
    /\ UNCHANGED parser_vars

\* the loop over categorized_files.items() is exhausted: return True
OrganizeReturn ==
    /\ pc = "category"
    /\ category_index > Len(categorized_files)
    /\ pc' = "organized"
    /\ outcome' = "returned"
    /\ UNCHANGED <<fs, folders, categorized_files, category_index, file_index,
                   counter, error>>
    /\ files_frame

\* if not files: continue
SkipEmptyCategory ==
    /\ pc = "category"
    /\ category_index <= Len(categorized_files)
    /\ Files = <<>>
    /\ category_index' = category_index + 1
    /\ UNCHANGED <<fs, folders, categorized_files, file_index, counter, pc,
                   error, outcome>>
    /\ files_frame

\* os.makedirs(category_path, exist_ok=True)
MakeCategoryFolder ==
    /\ pc = "category"
    /\ category_index <= Len(categorized_files)
    /\ Files # <<>>
    /\ folders' = folders \cup {Category}
    /\ file_index' = 1
    /\ pc' = "file"
    /\ UNCHANGED <<fs, categorized_files, category_index, counter, error,
                   outcome>>
    /\ files_frame

\* the loop over files is exhausted
NextCategory ==
    /\ pc = "file"
    /\ file_index > Len(Files)
    /\ category_index' = category_index + 1
    /\ file_index' = 0
    /\ pc' = "category"
    /\ UNCHANGED <<fs, folders, categorized_files, counter, error, outcome>>
    /\ files_frame

\* variant: the destination is never looked at before the move
CheckDestination_NoCheck ==
    /\ pc = "file"
    /\ file_index <= Len(Files)
    /\ counter' = 0
    /\ pc' = "move"
    /\ UNCHANGED <<fs, folders, categorized_files, category_index, file_index,
                   error, outcome>>
    /\ files_frame

\* dest_path is built; if os.path.exists(dest_path): counter = 1
CheckDestination ==
    /\ pc = "file"
    /\ file_index <= Len(Files)
    /\ IF Exists(fs, PlainDestination)
       THEN counter' = 1 /\ pc' = "search"
       ELSE counter' = 0 /\ pc' = "move"
    /\ UNCHANGED <<fs, folders, categorized_files, category_index, file_index,
                   error, outcome>>
    /\ files_frame

\* one pass of the while loop: counter += 1
CounterStep ==
    /\ pc = "search"
    /\ Exists(fs, Numbered(PlainDestination, counter))
    /\ counter' = counter + 1
    /\ UNCHANGED <<fs, folders, categorized_files, category_index, file_index,
                   pc, error, outcome>>
    /\ files_frame

\* the while loop ends: dest_path is the numbered name
SearchEnds ==
    /\ pc = "search"
    /\ ~Exists(fs, Numbered(PlainDestination, counter))
    /\ pc' = "move"
    /\ UNCHANGED <<fs, folders, categorized_files, category_index, file_index,
                   counter, error, outcome>>
    /\ files_frame

\* shutil.move(file_path, dest_path); a file_path that does not exist
\* raises, the handler prints it and the function returns False
MoveFile ==
    /\ pc = "move"
    /\ IF Exists(fs, FilePath)
       THEN /\ fs' = Move(fs, FilePath, DestPath)
            /\ file_index' = file_index + 1
            /\ counter' = 0
            /\ pc' = "file"
            /\ UNCHANGED <<error, outcome>>
       ELSE /\ pc' = "organized"
            /\ error' = [exc |-> "FileNotFoundError", msg |-> "organizing",
                         pos |-> file_index, id |-> <<>>]
            /\ outcome' = "returned"
            /\ UNCHANGED <<fs, file_index, counter>>
    /\ UNCHANGED <<folders, categorized_files, category_index>>
    /\ files_frame

NextFiles ==
    \/ OrganizeReturn
    \/ SkipEmptyCategory
    \/ MakeCategoryFolder
    \/ NextCategory
    \/ CheckDestination
    \/ CounterStep
    \/ SearchEnds
    \/ MoveFile

SpecFiles == InitFiles /\ [][NextFiles]_vars

\* the files in the folder of the current category
InCategoryFolder == {f \in fs : f[1].dir = Category}

Contents(disk) == {f[2] : f \in disk}

\* C30: organize_files_by_type never overwrites a file: the destination it
\* has chosen does not exist at the moment of the move, so every move keeps
\* all files on disk under distinct names; the search for a free name needs
\* at most as many steps as the folder holds files; a category without files
\* creates no folder.
C30_NeverOverwrites ==
    /\ [](pc = "move" => ~Exists(fs, DestPath))
    /\ [](pc = "search" => counter <= Cardinality(InCategoryFolder))
    /\ [][/\ Contents(fs') = Contents(fs)
          /\ Cardinality(fs') = Cardinality(fs)
          /\ \A f, g \in fs' : f[1] = g[1] => f = g]_vars
    /\ [][folders' # folders =>
              /\ Files # <<>>
              /\ folders' = folders \cup {Category}]_vars

C30_Witness ==
    /\ pc = "organized"
    /\ error = NoError
    /\ categorized_files[1][2] =
           <<Path("inbox", <<"a">>, ".txt"), Path("desk", <<"a">>, ".txt")>>
    /\ categorized_files[2][2] = <<>>
    /\ "images" \notin folders
    /\ <<Path("documents", <<"a">>, ".txt"),
         Path("documents", <<"a">>, ".txt")>> \in fs
    /\ <<Path("documents", <<"a", "_", "1">>, ".txt"),
         Path("documents", <<"a", "_", "1">>, ".txt")>> \in fs
    /\ <<Path("documents", <<"a", "_", "2">>, ".txt"),
         Path("inbox", <<"a">>, ".txt")>> \in fs
    /\ <<Path("documents", <<"a", "_", "3">>, ".txt"),
         Path("desk", <<"a">>, ".txt")>> \in fs

====
